---- MODULE Spec2Model ----
(***************************************************************************)
(* A model of the ROMG packaging tools: the dependency validator           *)
(* (integratedcheckromgdeps.py) and the archive composer                   *)
(* (package-romg.py: romgBuilder and __main).                               *)
(*                                                                         *)
(* Two specifications share the module:                                    *)
(*   SpecV  one run of integratedcheckromgdeps.py on a base descriptor and *)
(*          a list of module descriptors;                                  *)
(*   Spec   one run of package-romg.py __main, from argument checking to   *)
(*          process exit.                                                  *)
(***************************************************************************)
EXTENDS Integers, Sequences, FiniteSets, TLC

VARIABLES
    \* ---- integratedcheckromgdeps.py (SpecV) ----
    vpc,        \* position of the validator process: "idle", "start", "exited"
    vBase,      \* module.json of the base archive given with -b
    vModules,   \* module.json of every archive given with -m, in argument order
    vResult,    \* outcome of check_module_deps: returned value or raised, with the log
    vExit,      \* exit status of the validator process (NoExit while running)
    \* ---- package-romg.py (Spec) ----
    pc,         \* position of __main
    settings,   \* parsed command line
    tmpDir,     \* TRUE while the directory made by tempfile.mkdtemp exists
    tree,       \* content of tmpDir: path -> file content, or DIR for a directory
    info,       \* romgBuilder.info, the manifest
    layout,     \* romgBuilder.moduleDir / baseDir / overlayDescriptorDir / yarnCacheDir
    idx,        \* index of the current loop of __main
    outDir,     \* files this run has put into the output directory
    exitCode,   \* exit status of package-romg.py (NoExit while running)
    log         \* the operations __main has begun, in order (history)

vvars == <<vpc, vBase, vModules, vResult, vExit>>
pvars == <<pc, settings, tmpDir, tree, info, layout, idx, outDir, exitCode, log>>
vars == <<vpc, vBase, vModules, vResult, vExit,
          pc, settings, tmpDir, tree, info, layout, idx, outDir, exitCode, log>>

NoExit == -1

(***************************************************************************)
(* Bounds of the model.                                                    *)
(***************************************************************************)
MaxModules == 2       \* longest -m list
MaxOverlays == 2      \* longest -o list

(***************************************************************************)
(* Descriptors (module.json).  A version string is kept as the text before *)
(* the first '-' (core: a triple, or <<>> for no text) and the text after  *)
(* it (pre: "" when the string holds no '-').  kind tells a string from a  *)
(* JSON null and from a descriptor without the key.                        *)
(***************************************************************************)
VAbsent == [kind |-> "absent", core |-> <<>>, pre |-> ""]
VNull == [kind |-> "null", core |-> <<>>, pre |-> ""]
VEmpty == [kind |-> "str", core |-> <<>>, pre |-> ""]
VStr(c, p) == [kind |-> "str", core |-> c, pre |-> p]

\* a semver range: "" or "^M.m.p"
REmpty == [op |-> "", v |-> <<>>]
RCaret(t) == [op |-> "^", v |-> t]

\* the dependencies field: missing from the descriptor, or a mapping
DepsAbsent == [present |-> FALSE, map |-> <<>>]
DepsOf(m) == [present |-> TRUE, map |-> m]
NoDeps == DepsOf(<<>>)

Descriptor(n, v, d) == [name |-> n, version |-> v, dependencies |-> d]

\* version_str == '' or version_str is None  (a present key)
IsEmptyOrNone(v) == v.kind = "null" \/ (v.kind = "str" /\ v.core = <<>> /\ v.pre = "")

\* version_str.split('-')[0]
SplitDashFirst(v) == [kind |-> "str", core |-> v.core, pre |-> ""]

\* does the concrete version v = M.m.p lie in ^R ?
CaretHolds(r, v) ==
    IF r[1] > 0 THEN
        /\ v[1] = r[1]
        /\ (v[2] > r[2] \/ (v[2] = r[2] /\ v[3] >= r[3]))
    ELSE IF r[2] > 0 THEN
        v[1] = 0 /\ v[2] = r[2] /\ v[3] >= r[3]
    ELSE v = r

\* exit status of `semver -r <range> <version>`: 0 when the version is valid
\* and in the range; a pre-release version is in no range without a
\* pre-release tag of its own, and a string that is no version is in none.
SemverReturnCode(req, ver) ==
    IF /\ ver.kind = "str" /\ Len(ver.core) = 3 /\ ver.pre = ""
       /\ req.op = "^" /\ CaretHolds(req.v, ver.core)
    THEN 0 ELSE 1

\* __check_version
check_version(version_req, version_str) ==
    IF IsEmptyOrNone(version_str) \/ version_req.op = "" THEN TRUE
    ELSE SemverReturnCode(version_req, SplitDashFirst(version_str)) = 0

(***************************************************************************)
(* integratedcheckromgdeps.py                                              *)
(***************************************************************************)
BitsBase == "bits-base"

\* every name a descriptor or a dependency of the model may carry
AllNames == {BitsBase, "A", "B", "X"}

\* A dict is iterated in an order the program does not choose: an order is a
\* sequence listing every name once, and a dict's keys come in that order.
KeyOrders ==
    {o \in [1..Cardinality(AllNames) -> AllNames] :
        \A i, j \in DOMAIN o : o[i] = o[j] => i = j}

KeysInOrder(d, ord) == SelectSeq(ord, LAMBDA k : k \in DOMAIN d)

\* modules[module_json['name']] = module_json, for each archive in turn:
\* a later archive of the same name replaces the earlier one
RECURSIVE ModulesDict(_)
ModulesDict(module_list) ==
    IF module_list = <<>> THEN <<>>
    ELSE LET n == Len(module_list)
             front == ModulesDict(SubSeq(module_list, 1, n - 1))
             last == module_list[n]
         IN [k \in DOMAIN front \cup {last.name} |->
                IF k = last.name THEN last ELSE front[k]]

\* the running state of check_module_deps: ret, what logger.error and
\* logger.warn have been given, and whether an exception has been raised
StartAcc == [ret |-> TRUE, errors |-> <<>>, warnings |-> <<>>, raised |-> FALSE]

LogError(acc, module, dep) ==
    [acc EXCEPT !.ret = FALSE,
                !.errors = Append(@, [module |-> module, dep |-> dep])]

LogWarn(acc, module, dep) ==
    [acc EXCEPT !.warnings = Append(@, [module |-> module, dep |-> dep])]

Raise(acc) == [acc EXCEPT !.raised = TRUE]

\* one turn of the loop over modules[module]['dependencies'].iteritems()
CheckDep(acc, module, dep, base, modules) ==
    LET version == modules[module].dependencies.map[dep] IN
    IF dep = BitsBase THEN
        IF ~check_version(version, base.version)
        THEN LogError(acc, module, dep) ELSE acc
    ELSE IF dep \notin DOMAIN modules THEN LogError(acc, module, dep)
    ELSE IF modules[dep].version.kind = "absent" THEN Raise(acc)   \* KeyError
    ELSE IF ~IsEmptyOrNone(modules[dep].version) THEN
        IF ~check_version(version, modules[dep].version)
        THEN LogError(acc, module, dep) ELSE acc
    ELSE LogWarn(acc, module, dep)

RECURSIVE CheckDeps(_, _, _, _, _)
CheckDeps(acc, module, deps, base, modules) ==
    IF deps = <<>> \/ acc.raised THEN acc
    ELSE CheckDeps(CheckDep(acc, module, Head(deps), base, modules),
                   module, Tail(deps), base, modules)

\* the body of `for module in modules.keys()`
CheckModule(acc, module, base, modules, ord) ==
    IF ~modules[module].dependencies.present THEN Raise(acc)       \* KeyError
    ELSE CheckDeps(acc, module,
                   KeysInOrder(modules[module].dependencies.map, ord),
                   base, modules)

RECURSIVE CheckModules(_, _, _, _, _)
CheckModules(acc, keys, base, modules, ord) ==
    IF keys = <<>> \/ acc.raised THEN acc
    ELSE CheckModules(CheckModule(acc, Head(keys), base, modules, ord),
                      Tail(keys), base, modules, ord)

\* check_module_deps(base_path, module_path_list), the archives given by
\* their module.json; ord is the order the dicts are iterated in.
check_module_deps(base, module_list, ord) ==
    LET modules == ModulesDict(module_list)
        acc0 == IF base.version.kind = "absent" THEN Raise(StartAcc)   \* KeyError
                ELSE IF IsEmptyOrNone(base.version)
                     THEN LogWarn(StartAcc, BitsBase, BitsBase)
                     ELSE StartAcc
        acc == CheckModules(acc0, KeysInOrder(modules, ord), base, modules, ord)
    IN [outcome |-> IF acc.raised THEN "raise"
                    ELSE IF acc.ret THEN "true" ELSE "false",
        errors |-> acc.errors,
        warnings |-> acc.warnings]

\* __main of integratedcheckromgdeps.py: sys.exit(0) on True, sys.exit(1) on
\* False; an exception that nothing catches ends the interpreter with 1
ValidatorExitStatus(result) == IF result.outcome = "true" THEN 0 ELSE 1

NoResult == [outcome |-> "none", errors |-> <<>>, warnings |-> <<>>]

\* ---- the inputs of SpecV ----
V100 == VStr(<<1, 0, 0>>, "")
V120 == VStr(<<1, 2, 0>>, "")
V120rc == VStr(<<1, 2, 0>>, "rc1")
R1 == RCaret(<<1, 0, 0>>)
R2 == RCaret(<<2, 0, 0>>)

VersionOptions == {VAbsent, VNull, VEmpty, V120, V120rc}

DepsOptions ==
    {DepsAbsent, NoDeps,
     DepsOf(BitsBase :> R1), DepsOf(BitsBase :> R2),
     DepsOf("B" :> R1), DepsOf("B" :> R2), DepsOf("B" :> REmpty),
     DepsOf("X" :> R1), DepsOf("X" :> REmpty),
     DepsOf((BitsBase :> R2) @@ ("X" :> R1))}

\* module A is the dependent, with every dependency mapping; module B is
\* the target, with every version
VModuleDescriptors ==
    {Descriptor("A", V100, d) : d \in DepsOptions}
    \cup {Descriptor("B", v, d) : v \in VersionOptions,
                                  d \in {NoDeps, DepsAbsent, DepsOf("X" :> R1)}}

VBaseDescriptors == {Descriptor(BitsBase, v, NoDeps) : v \in VersionOptions}

SeqsUpTo(S, n) == UNION {[1..k -> S] : k \in 1..n}

(***************************************************************************)
(* The working tree: a map from a path (a sequence of names, relative to   *)
(* tmpDir) to the content of the file there, or DIR for a directory.       *)
(***************************************************************************)
DIR == "<dir>"
EmptyTree == <<>>

Prefixes(p) == {SubSeq(p, 1, k) : k \in 1..Len(p)}
IsPrefix(d, p) == Len(d) <= Len(p) /\ SubSeq(p, 1, Len(d)) = d

\* os.path.isdir / os.path.isfile / os.path.exists, below tmpDir
IsDir(t, p) == p = <<>> \/ (p \in DOMAIN t /\ t[p] = DIR)
IsFile(t, p) == p \in DOMAIN t /\ t[p] # DIR
Exists(t, p) == p = <<>> \/ p \in DOMAIN t

\* os.makedirs
MakeDirs(t, p) ==
    [q \in DOMAIN t \cup Prefixes(p) |-> IF q \in DOMAIN t THEN t[q] ELSE DIR]

\* shutil.rmtree
RmTree(t, p) == [q \in {r \in DOMAIN t : ~IsPrefix(p, r)} |-> t[q]]

\* the files below directory d, by their path relative to d
FilesBelow(t, d) ==
    LET below == {q \in DOMAIN t : IsPrefix(d, q) /\ q # d /\ t[q] # DIR}
    IN [f \in {SubSeq(q, Len(d) + 1, Len(q)) : q \in below} |-> t[d \o f]]

WriteFiles_keepingExisting(t, files, d) ==
    LET new == {d \o f : f \in DOMAIN files}
        dirs == (UNION {Prefixes(q) : q \in new}) \ new
    IN [q \in DOMAIN t \cup new \cup dirs |->
            IF q \in DOMAIN t THEN t[q]
            ELSE IF q \in new THEN files[SubSeq(q, Len(d) + 1, Len(q))]
            ELSE DIR]

\* writing every file of `files` (relative path -> content) below directory
\* d, making the directories on the way and replacing what is there
WriteFiles(t, files, d) ==
    LET new == {d \o f : f \in DOMAIN files}
        dirs == (UNION {Prefixes(q) : q \in new}) \ new
    IN [q \in DOMAIN t \cup new \cup dirs |->
            IF q \in new THEN files[SubSeq(q, Len(d) + 1, Len(q))]
            ELSE IF q \in DOMAIN t THEN t[q]
            ELSE DIR]

\* romgBuilder._cleanExtractedTgz
cleanExtractedTgz(t, dir) ==
    IF Exists(t, dir \o <<".gitlab">>) THEN RmTree(t, dir \o <<".gitlab">>) ELSE t

\* romgBuilder.__extractTgz: tf.extractall(extractDir), then the clean-up
extractTgz(t, files, relativeDir) ==
    cleanExtractedTgz(WriteFiles(t, files, relativeDir), relativeDir)

(***************************************************************************)
(* Archives.  An archive holds its descriptor (module.json or              *)
(* overlay.json) and its other files.  The content of package.json is one  *)
(* of PkgHook (a scripts section with bits:install), PkgNoHook (a scripts  *)
(* section without it) and PkgNoScripts (no scripts section).              *)
(***************************************************************************)
PkgHook == "pkg:hook"
PkgNoHook == "pkg:nohook"
PkgNoScripts == "pkg:noscripts"

PackageJson == <<"package.json">>
CachePath == <<"support", "yarn-cache">>
ScriptDir == <<"prepackage_scripts">>
ModuleJson == <<"module.json">>
OverlayJson == <<"overlay.json">>

Archive(id, json, files) == [id |-> id, json |-> json, files |-> files]

\* what tarfile.extractall writes for a base or module archive
ModuleArchiveFiles(a) == (ModuleJson :> a.id) @@ a.files

BaseHook ==
    Archive("base-hook", Descriptor(BitsBase, V120, NoDeps),
            (PackageJson :> PkgHook)
            @@ (CachePath \o <<"left-pad">> :> "base-hook")
            @@ (<<"index.js">> :> "base-hook")
            @@ (<<".gitlab", "ci.yml">> :> "base-hook"))
BasePlain ==
    Archive("base-plain", Descriptor(BitsBase, V120, DepsAbsent),
            (<<"index.js">> :> "base-plain"))
BaseA ==
    Archive("base-a", Descriptor("A", V100, NoDeps),
            (PackageJson :> PkgNoHook)
            @@ (CachePath \o <<"left-pad">> :> "base-a"))

BaseArchives == {BaseHook, BasePlain, BaseA}

ModA ==
    Archive("mod-a", Descriptor("A", V100, DepsOf(BitsBase :> R1)),
            (PackageJson :> PkgHook)
            @@ (CachePath \o <<"lodash">> :> "mod-a")
            @@ (<<"main.js">> :> "mod-a"))
ModB ==
    Archive("mod-b", Descriptor("B", V100, DepsOf("A" :> R1)),
            (PackageJson :> PkgNoHook)
            @@ (CachePath \o <<"left-pad">> :> "mod-b"))
\* a second archive named A; it declares the hook and brings no cache
ModA2 ==
    Archive("mod-a2", Descriptor("A", V120rc, NoDeps),
            (PackageJson :> PkgHook)
            @@ (<<"main.js">> :> "mod-a2"))
ModNoDepsField ==
    Archive("mod-nodeps", Descriptor("B", V100, DepsAbsent),
            (PackageJson :> PkgNoScripts))
ModUnmet ==
    Archive("mod-unmet", Descriptor("B", V100, DepsOf(BitsBase :> R2)),
            (<<"main.js">> :> "mod-unmet")
            @@ (<<".gitlab", "ci.yml">> :> "mod-unmet"))
ModBitsBase ==
    Archive("mod-bb", Descriptor(BitsBase, V100, NoDeps),
            (PackageJson :> PkgHook)
            @@ (CachePath \o <<"lodash">> :> "mod-bb"))

ModuleArchives == {ModA, ModB, ModA2, ModNoDepsField, ModUnmet, ModBitsBase}

\* an overlay: overlay.json (when hasJson) gives name and version
Overlay(id, hasJson, name, version, files) ==
    [id |-> id, hasJson |-> hasJson, name |-> name, version |-> version,
     files |-> files]

OverlayArchiveFiles(o) ==
    IF o.hasJson THEN (OverlayJson :> o.id) @@ o.files ELSE o.files

Ov1 ==
    Overlay("ov-1", TRUE, "O1", "1", 
            (<<"index.js">> :> "ov-1")
            @@ (ScriptDir \o <<"s1">> :> "ov-1")
            @@ (<<".gitlab", "ci.yml">> :> "ov-1"))
Ov2 ==
    Overlay("ov-2", TRUE, "O2", "2",
            (<<"index.js">> :> "ov-2")
            @@ (<<"data", "base", "modules", "modules", "A", "main.js">> :> "ov-2"))

\* an archive without overlay.json
OvNoJson ==
    Overlay("ov-nojson", FALSE, "", "",
            (<<"index.js">> :> "ov-nojson"))

OverlayArchives == {Ov1, Ov2, OvNoJson}

(***************************************************************************)
(* romgBuilder                                                             *)
(***************************************************************************)
NoPath == [set |-> FALSE, path |-> <<>>]
PathOf(p) == [set |-> TRUE, path |-> p]

NoLayout ==
    [moduleDir |-> <<>>, baseDir |-> <<>>,
     overlayDescriptorDir |-> NoPath, yarnCacheDir |-> NoPath]

LayoutOf_alwaysV1(omgFormatVersion) ==
    [moduleDir |-> <<"data", "base", "modules", "modules">>,
     baseDir |-> <<>>,
     overlayDescriptorDir |-> NoPath,
     yarnCacheDir |-> PathOf(CachePath)]

\* the layout fields romgBuilder.__init__ sets for a format version
LayoutOf(omgFormatVersion) ==
    IF omgFormatVersion = 1 THEN
        [moduleDir |-> <<"data", "base", "modules", "modules">>,
         baseDir |-> <<>>,
         overlayDescriptorDir |-> NoPath,
         yarnCacheDir |-> PathOf(CachePath)]
    ELSE
        [moduleDir |-> <<"modules">>,
         baseDir |-> <<"base">>,
         overlayDescriptorDir |-> PathOf(<<"overlays">>),
         yarnCacheDir |-> NoPath]

\* the directories romgBuilder.__init__ makes in tmpDir
InitialTree(omgFormatVersion) ==
    IF omgFormatVersion = 1
    THEN MakeDirs(EmptyTree, LayoutOf(1).moduleDir)
    ELSE MakeDirs(MakeDirs(MakeDirs(EmptyTree, LayoutOf(2).moduleDir),
                           <<"data">>),
                  LayoutOf(2).baseDir)

NoBase == [set |-> FALSE, name |-> "", version |-> VAbsent]

NoInfo == [modules |-> <<>>, overlays |-> <<>>, base |-> NoBase, uuid |-> FALSE]

\* self.info after romgBuilder.__init__
InitialInfo(omgFormatVersion) ==
    [modules |-> <<>>, overlays |-> <<>>, base |-> NoBase,
     uuid |-> (omgFormatVersion # 1)]

\* romgBuilder.__readModuleJson: the descriptor with the dependencies
\* defaulted to {}; moduleJson['version'] raises KeyError when absent
readModuleJson(a) ==
    IF a.json.version.kind = "absent"
    THEN [raised |-> TRUE, json |-> a.json]
    ELSE [raised |-> FALSE,
          json |-> Descriptor(a.json.name, a.json.version,
                              IF a.json.dependencies.present
                              THEN a.json.dependencies ELSE NoDeps)]

\* romgBuilder.__get_bits_install: "true", "false" (with a warning when the
\* file cannot be opened) or "raise" (KeyError: no scripts section)
get_bits_install(t, moduleDir) ==
    LET package_filename == moduleDir \o PackageJson IN
    IF ~IsFile(t, package_filename) THEN "false"
    ELSE IF t[package_filename] = PkgNoScripts THEN "raise"
    ELSE IF t[package_filename] = PkgHook THEN "true"
    ELSE "false"

\* what a step of the builder comes to: the tree it leaves, how it ends
\* ("ok", "raise" for an exception, "exit" for sys.exit(1)), the child
\* process it has run ("hook", "rsync" or "scripts"; "warning" when it only
\* logs a warning; "none") and that process's exit status
Result(t, outcome, ran, rc) == [tree |-> t, outcome |-> outcome, ran |-> ran, rc |-> rc]
Done(t) == Result(t, "ok", "none", NoExit)
Raised(t) == Result(t, "raise", "none", NoExit)

hookFailureRaises_ignored(returncode) == FALSE

\* `if p.returncode != 0: raise Exception(...)` of __buildModule
hookFailureRaises(returncode) == returncode # 0

\* romgBuilder.__buildModule; returncode is the exit status `npm run
\* bits:install` gives when it is run
buildModuleDir(t, moduleDir, returncode) ==
    LET moduleCacheDir == moduleDir \o CachePath IN
    IF IsDir(t, moduleDir) /\ IsDir(t, moduleCacheDir) THEN
        IF hookFailureRaises(returncode)
        THEN Result(t, "raise", "hook", returncode)
        ELSE Result(RmTree(t, moduleCacheDir), "ok", "hook", returncode)
    ELSE Done(t)

\* rsync -a src/ dst/
Rsync(t, src, dst) == WriteFiles(MakeDirs(t, dst), FilesBelow(t, src), dst)

syncFailureExits_ignored(returncode) == FALSE

\* `if p.returncode != 0: ... sys.exit(1)` of __updateYarnCache
syncFailureExits(returncode) == returncode # 0

\* romgBuilder.__updateYarnCache; returncode is the exit status of rsync.
\* self.yarnCacheDir is an attribute only format 1 sets: reading it
\* otherwise raises AttributeError
updateYarnCache(t, lay, moduleDir, returncode) ==
    LET moduleCacheDir == moduleDir \o CachePath IN
    IF IsDir(t, moduleCacheDir) THEN
        IF ~lay.yarnCacheDir.set
        THEN Raised(t)
        ELSE IF syncFailureExits(returncode)
        THEN Result(t, "exit", "rsync", returncode)
        ELSE Result(RmTree(Rsync(t, moduleCacheDir, lay.yarnCacheDir.path),
                           moduleCacheDir),
                    "ok", "rsync", returncode)
    ELSE Done(t)

\* the branch on build_module shared by combineNpmPackages, buildBase and
\* buildModule; updates tells whether the else branch merges the cache
buildOrUpdate(t, lay, dir, build_module, updates, returncode) ==
    IF build_module THEN
        LET hook == get_bits_install(t, dir) IN
        IF hook = "raise" THEN Raised(t)
        ELSE IF hook = "true" THEN buildModuleDir(t, dir, returncode)
        ELSE Result(t, "ok", "warning", NoExit)
    ELSE IF updates THEN updateYarnCache(t, lay, dir, returncode)
    ELSE Done(t)

\* the file name <name>_<version>.json of a relocated overlay descriptor
OverlayDescriptorName(name, version) ==
    CASE name = "O1" /\ version = "1" -> "O1_1.json"
      [] name = "O2" /\ version = "2" -> "O2_2.json"
      [] OTHER -> "overlay.json"

relocateOverlayJson_never(t, lay, name, version) == t

\* the part of addOverlay after the extraction
relocateOverlayJson(t, lay, name, version) ==
    IF IsFile(t, OverlayJson) /\ lay.overlayDescriptorDir.set THEN
        LET dir == lay.overlayDescriptorDir.path
            t1 == IF ~IsDir(t, dir) THEN MakeDirs(t, dir) ELSE t
            target == dir \o <<OverlayDescriptorName(name, version)>>
        IN [q \in (DOMAIN t1 \ {OverlayJson}) \cup {target} |->
                IF q = target THEN t1[OverlayJson] ELSE t1[q]]
    ELSE t

(***************************************************************************)
(* __main of package-romg.py                                               *)
(***************************************************************************)
\* an entry of the log: the operation begun, its argument, how it ended,
\* and the child process it ran with that process's exit status
EvRan(op, arg, status, ran, rc) ==
    [op |-> op, arg |-> arg, status |-> status, ran |-> ran, rc |-> rc]
Ev(op, arg, status) == EvRan(op, arg, status, "none", NoExit)

NoFile == [state |-> "none", tree |-> EmptyTree, info |-> NoInfo]
EmptyOutDir == [romg |-> NoFile, header |-> NoFile]

\* the -m lists: each archive is passed once (two archives of one name
\* are ModA and ModA2)
ModuleLists ==
    {s \in SeqsUpTo(ModuleArchives, MaxModules) :
        \A i, j \in DOMAIN s : s[i] = s[j] => i = j}

Settings ==
    [no_dependencies : BOOLEAN,
     build_node_modules : BOOLEAN,
     omg_format_version : {1, 2},
     base : BaseArchives,
     modules : ModuleLists]

JsonOf(archives) == [i \in DOMAIN archives |-> archives[i].json]

\* an exception nothing catches, or sys.exit(1): the process ends with
\* status 1 and whatever it had made stays as it is
Abort(ev) ==
    /\ pc' = "exited"
    /\ exitCode' = 1
    /\ log' = Append(log, ev)

Goto(next, ev) ==
    /\ pc' = next
    /\ log' = Append(log, ev)
    /\ UNCHANGED exitCode

\* the four checkFileArg calls and the parsing of --ownership-info
CheckArgs ==
    /\ pc = "check_args"
    /\ \E found \in BOOLEAN :
        IF found THEN Goto("mkdtemp", Ev("checkFileArg", "", "ok"))
        ELSE Abort(Ev("checkFileArg", "", "exit"))
    /\ UNCHANGED <<settings, tmpDir, tree, info, layout, idx, outDir>>
    /\ UNCHANGED vvars

\* tmpDir = tempfile.mkdtemp(prefix='romg-')
MkDTemp ==
    /\ pc = "mkdtemp"
    /\ tmpDir' = TRUE
    /\ tree' = EmptyTree
    /\ Goto("dep_check", Ev("mkdtemp", "", "ok"))
    /\ UNCHANGED <<settings, info, layout, idx, outDir>>
    /\ UNCHANGED vvars

dependenciesMet_ignored(returncode) == TRUE

\* `if dependency_check_process.returncode != 0: raise Exception(...)`
dependenciesMet(returncode) == returncode = 0

\* the dependency check: integratedcheckromgdeps.py as a child process
DependencyCheck ==
    /\ pc = "dep_check"
    /\ IF settings.no_dependencies
       THEN Goto("construct", Ev("validate", "", "skip"))
       ELSE \E ord \in KeyOrders :
            LET result == check_module_deps(settings.base.json,
                                            JsonOf(settings.modules), ord)
                returncode == ValidatorExitStatus(result)
            IN IF dependenciesMet(returncode)
               THEN Goto("construct",
                         EvRan("validate", "", "ok", "validator", returncode))
               ELSE Abort(EvRan("validate", "", "raise", "validator", returncode))
    /\ UNCHANGED <<settings, tmpDir, tree, info, layout, idx, outDir>>
    /\ UNCHANGED vvars

\* romg = romgBuilder(...)
Construct ==
    /\ pc = "construct"
    /\ layout' = LayoutOf(settings.omg_format_version)
    /\ tree' = InitialTree(settings.omg_format_version)
    /\ info' = InitialInfo(settings.omg_format_version)
    /\ Goto("add_base", Ev("romgBuilder", "", "ok"))
    /\ UNCHANGED <<settings, tmpDir, idx, outDir>>
    /\ UNCHANGED vvars

\* self.info after addBase has read the descriptor
infoWithBase(inf, baseInfo) ==
    [inf EXCEPT !.base = [set |-> TRUE, name |-> baseInfo.name,
                          version |-> baseInfo.version],
                !.modules = Append(@, baseInfo)]

infoWithModule_replacing(inf, moduleInfo) ==
    [inf EXCEPT !.modules =
        IF \E i \in DOMAIN @ : @[i].name = moduleInfo.name
        THEN [i \in DOMAIN @ |->
                IF @[i].name = moduleInfo.name THEN moduleInfo ELSE @[i]]
        ELSE Append(@, moduleInfo)]

\* self.info['modules'].append(moduleInfo)
infoWithModule(inf, moduleInfo) ==
    [inf EXCEPT !.modules = Append(@, moduleInfo)]

\* romg.addBase(settings.base); extracted tells whether tarfile could
\* extract the archive
AddBase ==
    /\ pc = "add_base"
    /\ LET r == readModuleJson(settings.base) IN
       IF r.raised
       THEN /\ Abort(Ev("addBase", settings.base.id, "raise"))
            /\ UNCHANGED <<info, tree, idx>>
       ELSE \E extracted \in BOOLEAN :
            /\ info' = infoWithBase(info, r.json)
            /\ IF extracted
               THEN /\ tree' = extractTgz(tree, ModuleArchiveFiles(settings.base),
                                          layout.baseDir)
                    /\ idx' = 1
                    /\ Goto("add_module", Ev("addBase", settings.base.id, "ok"))
               ELSE /\ Abort(Ev("addBase", settings.base.id, "raise"))
                    /\ UNCHANGED <<tree, idx>>
    /\ UNCHANGED <<settings, tmpDir, layout, outDir>>
    /\ UNCHANGED vvars

\* one turn of `for module in settings.modules: romg.addModule(module)`
AddModule ==
    /\ pc = "add_module"
    /\ LET module == settings.modules[idx]
           r == readModuleJson(module)
       IN
       IF r.raised
       THEN /\ Abort(Ev("addModule", module.id, "raise"))
            /\ UNCHANGED <<info, tree, idx>>
       ELSE \E extracted \in BOOLEAN :
            /\ info' = infoWithModule(info, r.json)
            /\ IF extracted
               THEN /\ tree' = extractTgz(tree, ModuleArchiveFiles(module),
                                          layout.moduleDir \o <<r.json.name>>)
                    /\ idx' = IF idx = Len(settings.modules) THEN 1 ELSE idx + 1
                    /\ Goto(IF idx = Len(settings.modules)
                            THEN "combine" ELSE "add_module",
                            Ev("addModule", module.id, "ok"))
               ELSE /\ Abort(Ev("addModule", module.id, "raise"))
                    /\ UNCHANGED <<tree, idx>>
    /\ UNCHANGED <<settings, tmpDir, layout, outDir>>
    /\ UNCHANGED vvars

\* what starting nip can come to: the command is not installed (OSError
\* with ENOENT, a warning), another OSError (raised again), or it runs; its
\* exit status is not looked at
NipOutcomes == {"absent", "oserror", "ran"}

nipErrorRaises_alsoAbsent(nip) == nip # "ran"

\* the `except OSError` of combineNpmPackages: ENOENT is a warning, any
\* other error is raised again
nipErrorRaises(nip) == nip = "oserror"

\* the step a finished builder step leads to: the next one, or the end
Finish(r, next, op, arg) ==
    /\ tree' = r.tree
    /\ IF r.outcome = "ok"
       THEN Goto(next, EvRan(op, arg, "ok", r.ran, r.rc))
       ELSE Abort(EvRan(op, arg, r.outcome, r.ran, r.rc))

\* romg.combineNpmPackages(settings.build_node_modules, ...)
CombineNpmPackages ==
    /\ pc = "combine"
    /\ \E nip \in NipOutcomes, returncode \in {0, 1} :
        IF nipErrorRaises(nip)
        THEN /\ Abort(Ev("combineNpmPackages", nip, "raise"))
             /\ UNCHANGED tree
        ELSE LET t2 == MakeDirs(tree, CachePath)
             IN Finish(buildOrUpdate(t2, layout, <<>>,
                                     settings.build_node_modules, TRUE, returncode),
                       "build_base", "combineNpmPackages", nip)
    /\ UNCHANGED <<settings, tmpDir, info, layout, idx, outDir>>
    /\ UNCHANGED vvars

\* romg.buildBase(settings.build_node_modules, ...)
BuildBase ==
    /\ pc = "build_base"
    /\ \E returncode \in {0, 1} :
        Finish(buildOrUpdate(tree, layout, layout.baseDir,
                             settings.build_node_modules, FALSE, returncode),
               "build_module", "buildBase", "")
    /\ idx' = 1
    /\ UNCHANGED <<settings, tmpDir, info, layout, outDir>>
    /\ UNCHANGED vvars

\* one turn of `for module in romg.info['modules']`, which builds every
\* entry whose name is not 'bits-base'
BuildModule ==
    /\ pc = "build_module"
    /\ LET moduleName == info.modules[idx].name
           next == IF idx = Len(info.modules) THEN "add_overlay" ELSE "build_module"
       IN
       IF moduleName # BitsBase
       THEN \E returncode \in {0, 1} :
            Finish(buildOrUpdate(tree, layout, layout.moduleDir \o <<moduleName>>,
                                 settings.build_node_modules, TRUE, returncode),
                   next, "buildModule", moduleName)
       ELSE /\ Goto(next, Ev("buildModule", moduleName, "skip"))
            /\ UNCHANGED tree
    /\ idx' = IF idx = Len(info.modules) THEN 1 ELSE idx + 1
    /\ UNCHANGED <<settings, tmpDir, info, layout, outDir>>
    /\ UNCHANGED vvars

\* self.info['overlays'][name] = {'version': version}
infoWithOverlay(inf, name, version) ==
    [inf EXCEPT !.overlays =
        [n \in DOMAIN @ \cup {name} |-> IF n = name THEN version ELSE @[n]]]

\* one turn of `for overlay in settings.overlays: romg.addOverlay(overlay)`;
\* the overlay is the next archive of the -o list
AddOverlay ==
    /\ pc = "add_overlay"
    /\ idx <= MaxOverlays
    /\ \E overlay \in OverlayArchives :
        IF ~overlay.hasJson
        THEN /\ Abort(Ev("addOverlay", overlay.id, "raise"))      \* KeyError
             /\ UNCHANGED <<info, tree, idx>>
        ELSE \E extracted \in BOOLEAN :
             /\ info' = infoWithOverlay(info, overlay.name, overlay.version)
             /\ IF extracted
                THEN /\ tree' = relocateOverlayJson(
                                    extractTgz(tree, OverlayArchiveFiles(overlay), <<>>),
                                    layout, overlay.name, overlay.version)
                     /\ idx' = idx + 1
                     /\ Goto("add_overlay", Ev("addOverlay", overlay.id, "ok"))
                ELSE /\ Abort(Ev("addOverlay", overlay.id, "raise"))
                     /\ UNCHANGED <<tree, idx>>
    /\ UNCHANGED <<settings, tmpDir, layout, outDir>>
    /\ UNCHANGED vvars

RunCallerScripts_thenWrite ==
    /\ pc = "add_overlay"
    /\ \E failed \in BOOLEAN :
        Goto("write_tar",
             EvRan("run_pre_package_scripts", "", "ok", "scripts",
                   IF failed THEN 1 ELSE 0))
    /\ UNCHANGED <<settings, tmpDir, tree, info, layout, idx, outDir>>
    /\ UNCHANGED vvars

\* run_pre_package_scripts(settings.pre_package_scripts, tmpDir), entered
\* when the -o list is exhausted: every script is run, and a non-zero
\* exit or an exception is printed and nothing more
RunCallerScripts ==
    /\ pc = "add_overlay"
    /\ \E failed \in BOOLEAN :
        Goto("tree_scripts",
             EvRan("run_pre_package_scripts", "", "ok", "scripts",
                   IF failed THEN 1 ELSE 0))
    /\ UNCHANGED <<settings, tmpDir, tree, info, layout, idx, outDir>>
    /\ UNCHANGED vvars

\* the regular files of a directory
ListFiles(t, d) == {q \in DOMAIN t : Len(q) = Len(d) + 1 /\ IsPrefix(d, q) /\ t[q] # DIR}

\* romgBuilder.runPrepackageScripts; failed tells whether one of the
\* scripts exits non-zero
runPrepackageScripts(t, failed) ==
    IF IsDir(t, ScriptDir) THEN
        IF ListFiles(t, ScriptDir) # {} /\ failed
        THEN Result(t, "raise", "scripts", 1)
        ELSE IF ListFiles(t, ScriptDir) # {}
        THEN Result(RmTree(t, ScriptDir), "ok", "scripts", 0)
        ELSE Done(RmTree(t, ScriptDir))
    ELSE Done(t)

\* romg.runPrepackageScripts()
RunPrepackageScripts ==
    /\ pc = "tree_scripts"
    /\ \E failed \in BOOLEAN :
        Finish(runPrepackageScripts(tree, failed),
               "write_tar", "runPrepackageScripts", "")
    /\ UNCHANGED <<settings, tmpDir, info, layout, idx, outDir>>
    /\ UNCHANGED vvars

\* what writing a file can come to: written, not made at all (open
\* fails), or made and left incomplete (a write fails)
WriteOutcomes == {"ok", "open_fails", "write_fails"}

WriteRomgTar_failureSwallowed ==
    /\ pc = "write_tar"
    /\ \E w \in WriteOutcomes :
        /\ outDir' = [outDir EXCEPT !.romg =
                [state |-> IF w = "ok" THEN "complete" ELSE "partial",
                 tree |-> IF w = "ok" THEN tree ELSE EmptyTree,
                 info |-> NoInfo]]
        /\ Goto("write_header", Ev("writeRomg", "romg", "ok"))
    /\ UNCHANGED <<settings, tmpDir, tree, info, layout, idx>>
    /\ UNCHANGED vvars

\* the first `with` of writeRomg: the tree is written to the .romg file
WriteRomgTar ==
    /\ pc = "write_tar"
    /\ \E w \in WriteOutcomes :
        CASE w = "ok" ->
                /\ outDir' = [outDir EXCEPT !.romg =
                        [state |-> "complete", tree |-> tree, info |-> NoInfo]]
                /\ Goto("write_header", Ev("writeRomg", "romg", "ok"))
          [] w = "open_fails" ->
                /\ UNCHANGED outDir
                /\ Abort(Ev("writeRomg", "romg", "raise"))
          [] w = "write_fails" ->
                /\ outDir' = [outDir EXCEPT !.romg =
                        [state |-> "partial", tree |-> EmptyTree, info |-> NoInfo]]
                /\ Abort(Ev("writeRomg", "romg", "raise"))
    /\ UNCHANGED <<settings, tmpDir, tree, info, layout, idx>>
    /\ UNCHANGED vvars

\* the second `with` of writeRomg: self.info is written to the header file
WriteRomgHeader ==
    /\ pc = "write_header"
    /\ \E w \in WriteOutcomes :
        CASE w = "ok" ->
                /\ outDir' = [outDir EXCEPT !.header =
                        [state |-> "complete", tree |-> EmptyTree, info |-> info]]
                /\ Goto("cleanup", Ev("writeRomg", "header", "ok"))
          [] w = "open_fails" ->
                /\ UNCHANGED outDir
                /\ Abort(Ev("writeRomg", "header", "raise"))
          [] w = "write_fails" ->
                /\ outDir' = [outDir EXCEPT !.header =
                        [state |-> "partial", tree |-> EmptyTree, info |-> NoInfo]]
                /\ Abort(Ev("writeRomg", "header", "raise"))
    /\ UNCHANGED <<settings, tmpDir, tree, info, layout, idx>>
    /\ UNCHANGED vvars

\* shutil.rmtree(tmpDir); sys.exit(0)
Cleanup ==
    /\ pc = "cleanup"
    /\ tmpDir' = FALSE
    /\ tree' = EmptyTree
    /\ pc' = "exited"
    /\ exitCode' = 0
    /\ log' = Append(log, Ev("rmtree", "", "ok"))
    /\ UNCHANGED <<settings, info, layout, idx, outDir>>
    /\ UNCHANGED vvars

VIdle ==
    /\ vpc = "idle"
    /\ vBase = Descriptor(BitsBase, VAbsent, NoDeps)
    /\ vModules = <<>>
    /\ vResult = NoResult
    /\ vExit = NoExit

Init ==
    /\ pc = "check_args"
    /\ settings \in Settings
    /\ tmpDir = FALSE
    /\ tree = EmptyTree
    /\ info = NoInfo
    /\ layout = NoLayout
    /\ idx = 1
    /\ outDir = EmptyOutDir
    /\ exitCode = NoExit
    /\ log = <<>>
    /\ VIdle

Next ==
    \/ CheckArgs
    \/ MkDTemp
    \/ DependencyCheck
    \/ Construct
    \/ AddBase
    \/ AddModule
    \/ CombineNpmPackages
    \/ BuildBase
    \/ BuildModule
    \/ AddOverlay
    \/ RunCallerScripts
    \/ RunPrepackageScripts
    \/ WriteRomgTar
    \/ WriteRomgHeader
    \/ Cleanup

Spec == Init /\ [][Next]_vars

(***************************************************************************)
(* One run of integratedcheckromgdeps.py                                   *)
(***************************************************************************)
PIdle ==
    /\ pc = "idle"
    /\ settings = [no_dependencies |-> FALSE, build_node_modules |-> FALSE,
                   omg_format_version |-> 1, base |-> BasePlain,
                   modules |-> <<>>]
    /\ tmpDir = FALSE
    /\ tree = EmptyTree
    /\ info = NoInfo
    /\ layout = NoLayout
    /\ idx = 1
    /\ outDir = EmptyOutDir
    /\ exitCode = NoExit
    /\ log = <<>>

InitV ==
    /\ vpc = "start"
    /\ vBase \in VBaseDescriptors
    /\ vModules \in SeqsUpTo(VModuleDescriptors, MaxModules)
    /\ vResult = NoResult
    /\ vExit = NoExit
    /\ PIdle

\* check_module_deps(settings.base_path, settings.module_path_list)
VCheck ==
    /\ vpc = "start"
    /\ \E ord \in KeyOrders : vResult' = check_module_deps(vBase, vModules, ord)
    /\ vpc' = "checked"
    /\ UNCHANGED <<vBase, vModules, vExit>>
    /\ UNCHANGED pvars

\* sys.exit(0) / sys.exit(1), or the end of the interpreter on an exception
VExit ==
    /\ vpc = "checked"
    /\ vExit' = ValidatorExitStatus(vResult)
    /\ vpc' = "exited"
    /\ UNCHANGED <<vBase, vModules, vResult>>
    /\ UNCHANGED pvars

NextV == VCheck \/ VExit

SpecV == InitV /\ [][NextV]_vars

(***************************************************************************)
(* Properties of package-romg.py, checked under Spec                       *)
(***************************************************************************)
Exited == pc = "exited"

Began(op) == \E i \in DOMAIN log : log[i].op = op

Extractions == {"addBase", "addModule", "addOverlay"}

\* C1: every run that has made its working tree (tempfile.mkdtemp) has
\* deleted it when the process has ended, on every exit path.
C1_WorkingTreeDeletedOnEveryExit ==
    (Exited /\ Began("mkdtemp")) => ~tmpDir

\* C2: when the run has ended the output directory holds the .romg file and
\* the header file of the run, or neither of them.
C2_NoPartialPair ==
    Exited => ((outDir.romg.state # "none") <=> (outDir.header.state # "none"))

\* C3: unless --no-dependencies is given, an extraction (addBase, addModule,
\* addOverlay) begins only after the validator has ended with status 0; and
\* a validator that ends with another status ends the run there, nothing
\* extracted.
C3_ValidationGatesExtraction ==
    ~settings.no_dependencies =>
        /\ \A i \in DOMAIN log :
            log[i].op \in Extractions =>
                \E j \in 1..(i - 1) : log[j].op = "validate" /\ log[j].rc = 0
        /\ \A j \in DOMAIN log :
            (log[j].op = "validate" /\ log[j].rc # 0) =>
                /\ j = Len(log)
                /\ Exited /\ exitCode = 1
                /\ tree = EmptyTree
                /\ info.modules = <<>>

C3_Witness ==
    /\ ~settings.no_dependencies
    /\ \E j \in DOMAIN log : log[j].op = "validate" /\ log[j].rc = 0
    /\ Began("addBase") /\ Began("addModule") /\ Began("addOverlay")

\* C4: a build hook that exits non-zero ends the composition there: it is
\* the last operation of the run, the process ends with status 1, and no
\* .romg or header file is in the output directory.
C4_HookFailureAborts ==
    \A i \in DOMAIN log :
        (log[i].ran = "hook" /\ log[i].rc # 0) =>
            /\ settings.build_node_modules
            /\ i = Len(log)
            /\ Exited /\ exitCode = 1
            /\ outDir = EmptyOutDir

C4_Witness ==
    /\ \E i \in DOMAIN log :
        log[i].op = "buildModule" /\ log[i].ran = "hook" /\ log[i].rc # 0
    /\ Len(settings.modules) = MaxModules

\* the addModule calls that have returned
ModulesAdded == SelectSeq(log, LAMBDA e : e.op = "addModule" /\ e.status = "ok")

C10_ModuleNamesDistinct ==
    \A i, j \in DOMAIN info.modules :
        info.modules[i].name = info.modules[j].name => i = j

\* the last operation of the log, when it is `op` and has returned
LastReturned(op) ==
    /\ log # <<>>
    /\ log[Len(log)].op = op
    /\ log[Len(log)].status = "ok"

\* the archive of the -m list the last addModule has extracted
LastModuleAdded == settings.modules[Len(ModulesAdded)]

\* what an extraction of the archive below dir leaves there: its files,
\* those of its .gitlab directory left out
FilesKept(a) ==
    {f \in DOMAIN ModuleArchiveFiles(a) : ~IsPrefix(<<".gitlab">>, f)}

HoldsArchiveAt(t, a, dir) ==
    \A f \in FilesKept(a) :
        IsFile(t, dir \o f) /\ t[dir \o f] = ModuleArchiveFiles(a)[f]

V1ModulePath == <<"data", "base", "modules", "modules">>
V2ModulePath == <<"modules">>

\* the paths of the tree below dir
PathsBelow(t, dir) == {q \in DOMAIN t : IsPrefix(dir, q) /\ q # dir}

\* the files below dir that no overlay has written
ModuleContentBelow(t, dir) ==
    {q \in PathsBelow(t, dir) :
        IsFile(t, q) /\ t[q] \notin {o.id : o \in OverlayArchives}}

\* C11: the layout is that of the format version from the construction of
\* the builder on; with format 1 an addModule leaves the module's files in
\* data/base/modules/modules/<name>/ and addBase the base's at the root of
\* the tree, with format 2 in modules/<name>/ and in base/; and no tree has
\* module content under both module paths.
C11_LayoutFixedByFormat ==
    LET v1 == settings.omg_format_version = 1
        modulePath == IF v1 THEN V1ModulePath ELSE V2ModulePath
        basePath == IF v1 THEN <<>> ELSE <<"base">>
    IN
    /\ Began("romgBuilder") =>
        /\ layout.moduleDir = modulePath
        /\ layout.baseDir = basePath
    /\ LastReturned("addBase") => HoldsArchiveAt(tree, settings.base, basePath)
    /\ LastReturned("addModule") =>
        HoldsArchiveAt(tree, LastModuleAdded,
                       modulePath \o <<LastModuleAdded.json.name>>)
    /\ ~(/\ ModuleContentBelow(tree, V1ModulePath) # {}
         /\ ModuleContentBelow(tree, V2ModulePath) # {})

C11_Witness ==
    /\ settings.omg_format_version = 2
    /\ LastReturned("addModule")
    /\ Len(ModulesAdded) = MaxModules
    /\ PathsBelow(tree, V2ModulePath \o <<"B">>) # {}
    /\ PathsBelow(tree, <<"base">>) # {}

\* the overlays the addOverlay calls that have returned were given, in order
OverlaysApplied ==
    LET evs == SelectSeq(log, LAMBDA e : e.op = "addOverlay" /\ e.status = "ok")
    IN [i \in DOMAIN evs |-> CHOOSE o \in OverlayArchives : o.id = evs[i].arg]

\* the last overlay of `applied` that holds path p is the k-th
LastHolding(applied, p, k) ==
    /\ p \in DOMAIN OverlayArchiveFiles(applied[k])
    /\ \A m \in (k + 1)..Len(applied) :
        p \notin DOMAIN OverlayArchiveFiles(applied[m])

\* the paths of an overlay the composer treats specially: its descriptor
\* when the layout has a directory for overlay descriptors, the scripts of
\* the prepackage_scripts directory, and what is below .gitlab
ReservedPath(p) ==
    \/ p = OverlayJson /\ settings.omg_format_version # 1
    \/ IsPrefix(ScriptDir, p)
    \/ IsPrefix(<<".gitlab">>, p)

C13_ScriptFailureDoesNotAbort ==
    \A i \in DOMAIN log :
        (log[i].ran = "scripts" /\ log[i].rc # 0) =>
            /\ log[i].status = "ok"
            /\ ~(Exited /\ i = Len(log))

\* C14: once runPrepackageScripts has ended, however it ended, the tree has
\* no prepackage_scripts directory; and no serialized tree has one.
C14_ScriptDirDeleted ==
    /\ Began("runPrepackageScripts") => ~Exists(tree, ScriptDir)
    /\ outDir.romg.state = "complete" => ~Exists(outDir.romg.tree, ScriptDir)

\* C15: a step that merges a cache into the shared cache (the consolidation
\* of combineNpmPackages and the merge of each buildModule, when the build
\* pass is not requested) leaves every file of support/yarn-cache in place.
C15_MergeKeepsSharedCache ==
    [][(pc \in {"combine", "build_module"} /\ ~settings.build_node_modules) =>
            \A q \in PathsBelow(tree, CachePath) :
                IsFile(tree, q) => (IsFile(tree', q) /\ tree'[q] = tree[q])]_vars

\* the files of an archive below its support/yarn-cache, by their path
\* relative to that directory
CacheEntries(a) ==
    {SubSeq(f, Len(CachePath) + 1, Len(f)) :
        f \in {g \in DOMAIN a.files : IsPrefix(CachePath, g) /\ g # CachePath}}

\* C16: when the build pass is not requested, with format 1 and with format
\* 2, the cache step completes: no merge ends in an exception, and once
\* every buildModule has returned each module's cache entries are in the
\* shared support/yarn-cache and the module has no cache directory left.
C16_CacheStepCompletes ==
    ~settings.build_node_modules =>
        /\ \A i \in DOMAIN log :
            (log[i].op \in {"combineNpmPackages", "buildModule"}
                /\ log[i].status = "raise") => log[i].arg = "oserror"
        /\ (pc = "add_overlay" /\ OverlaysApplied = <<>>) =>
            \A i \in DOMAIN settings.modules :
                LET a == settings.modules[i]
                    dir == layout.moduleDir \o <<a.json.name>>
                IN /\ ~Exists(tree, dir \o CachePath)
                   /\ \A f \in CacheEntries(a) : IsFile(tree, CachePath \o f)

\* the cache directory the merge of log entry e reads
SourceCacheDir(e) ==
    IF e.op = "combineNpmPackages" THEN CachePath
    ELSE layout.moduleDir \o <<e.arg>> \o CachePath

\* C17: a sync into the shared cache that ends with a non-zero status ends
\* the composition there: it is the last operation of the run, the process
\* has ended with status 1, the cache directory that was being merged is
\* still in the tree, and the output directory is empty.
C17_SyncFailureAborts ==
    \A i \in DOMAIN log :
        (log[i].ran = "rsync" /\ log[i].rc # 0) =>
            /\ i = Len(log)
            /\ Exited /\ exitCode = 1
            /\ IsDir(tree, SourceCacheDir(log[i]))
            /\ outDir = EmptyOutDir

C17_Witness ==
    /\ Exited
    /\ log[Len(log)].op = "buildModule"
    /\ log[Len(log)].ran = "rsync"
    /\ log[Len(log)].rc # 0
    /\ PathsBelow(tree, SourceCacheDir(log[Len(log)])) # {}

\* C18: that nip is not installed does not end the composition: when
\* combineNpmPackages has found it absent and has not returned, a build hook
\* or a sync has failed, or the merge has raised for want of a shared cache
\* path; and runs that found it absent get to writeRomg.
C18_NipAbsenceNotFatal ==
    \A i \in DOMAIN log :
        (log[i].op = "combineNpmPackages" /\ log[i].arg = "absent"
            /\ log[i].status # "ok") =>
                \/ log[i].ran \in {"hook", "rsync"} /\ log[i].rc # 0
                \/ ~settings.build_node_modules /\ ~layout.yarnCacheDir.set

C18_Witness ==
    /\ \E i \in DOMAIN log :
        log[i].op = "combineNpmPackages" /\ log[i].arg = "absent"
    /\ Began("buildModule")
    /\ outDir.romg.state = "complete"
    /\ outDir.header.state = "complete"

\* the place of an operation in the canonical order
Rank(op) ==
    CASE op = "checkFileArg" -> 0
      [] op = "mkdtemp" -> 1
      [] op = "validate" -> 2
      [] op = "romgBuilder" -> 3
      [] op = "addBase" -> 4
      [] op = "addModule" -> 5
      [] op = "combineNpmPackages" -> 6
      [] op = "buildBase" -> 7
      [] op = "buildModule" -> 8
      [] op = "addOverlay" -> 9
      [] op = "run_pre_package_scripts" -> 10
      [] op = "runPrepackageScripts" -> 11
      [] op = "writeRomg" -> 12
      [] op = "rmtree" -> 13
      [] OTHER -> 14

Count(op) == Cardinality({i \in DOMAIN log : log[i].op = op})

ArgsOf(op) ==
    LET evs == SelectSeq(log, LAMBDA e : e.op = op /\ e.status = "ok")
    IN [i \in DOMAIN evs |-> evs[i].arg]

\* the names the loop over manifest.modules hands to buildModule
NamesBuilt ==
    LET ms == SelectSeq(info.modules, LAMBDA m : m.name # BitsBase)
    IN [i \in DOMAIN ms |-> ms[i].name]

InputReaders == {"checkFileArg", "addBase", "addModule", "addOverlay"}

\* C20: a run that an input error has ended (a path that does not exist, a
\* descriptor the builder cannot read, an archive that cannot be extracted)
\* has made no working tree, and has written nothing to the tree or to the
\* output directory.
C20_InputErrorBeforeMutation ==
    (/\ Exited
     /\ log # <<>>
     /\ log[Len(log)].op \in InputReaders
     /\ log[Len(log)].status # "ok")
    => /\ ~tmpDir
       /\ tree = EmptyTree
       /\ outDir = EmptyOutDir

\* the archive's package.json has a scripts section with bits:install
DeclaresHook(a) == PackageJson \in DOMAIN a.files /\ a.files[PackageJson] = PkgHook

\* the log entries of the steps that have run a build hook
HookRuns(ops, arg) ==
    {i \in DOMAIN log : log[i].op \in ops /\ log[i].arg = arg /\ log[i].ran = "hook"}

BuildPassDone ==
    /\ settings.build_node_modules
    /\ pc = "add_overlay"
    /\ OverlaysApplied = <<>>

\* the base and the modules of the run have pairwise distinct names
RunNamesDistinct ==
    \A i, j \in DOMAIN info.modules :
        info.modules[i].name = info.modules[j].name => i = j

\* C22: when the build pass has been done (composition of archives with
\* distinct names), the hook has run once for the base if the base
\* declares it, once for each module that declares it, whatever its name,
\* and for nothing else; and a module whose hook has run has no cache
\* directory left.
C22_HookRunOncePerDeclarer ==
    (BuildPassDone /\ RunNamesDistinct) =>
        LET baseRuns == {i \in DOMAIN log :
                            /\ log[i].op \in {"combineNpmPackages", "buildBase"}
                            /\ log[i].ran = "hook"}
            all == {i \in DOMAIN log : log[i].ran = "hook"}
        IN
        /\ Cardinality(baseRuns) = IF DeclaresHook(settings.base) THEN 1 ELSE 0
        /\ \A k \in DOMAIN settings.modules :
            LET a == settings.modules[k] IN
            /\ Cardinality(HookRuns({"buildModule"}, a.json.name)) =
                    IF DeclaresHook(a) THEN 1 ELSE 0
            /\ DeclaresHook(a) =>
                    ~Exists(tree, layout.moduleDir \o <<a.json.name>> \o CachePath)
        /\ Cardinality(all) =
                Cardinality(baseRuns)
                + Cardinality({k \in DOMAIN settings.modules :
                                    DeclaresHook(settings.modules[k])})

\* C23: in a build pass (composition of archives with distinct names),
\* buildBase of a base and buildModule of a module that does not declare
\* the hook (no package.json, no scripts section in it, or a scripts
\* section without bits:install) logs a warning and returns.
C23_NoHookIsSkippedWithWarning ==
    (settings.build_node_modules /\ RunNamesDistinct) =>
        \A i \in DOMAIN log :
            /\ (log[i].op = "buildBase" /\ ~DeclaresHook(settings.base)) =>
                    (log[i].status = "ok" /\ log[i].ran = "warning")
            /\ \A k \in DOMAIN settings.modules :
                LET a == settings.modules[k] IN
                (/\ log[i].op = "buildModule"
                 /\ log[i].status # "skip"
                 /\ log[i].arg = a.json.name
                 /\ ~DeclaresHook(a)) =>
                    (log[i].status = "ok" /\ log[i].ran = "warning")

\* C24: when addOverlay has returned for an overlay with an overlay.json,
\* manifest.overlays maps the overlay's name to its version; with format 2
\* the tree has no overlay.json at its root and holds the descriptor as
\* overlays/<name>_<version>.json; with format 1 the call returns as well,
\* the descriptor left at the root.
C24_OverlayDescriptorRecorded ==
    LastReturned("addOverlay") =>
        LET applied == OverlaysApplied
            o == applied[Len(applied)]
            moved == <<"overlays">> \o
                        <<CASE o.id = "ov-1" -> "O1_1.json"
                            [] o.id = "ov-2" -> "O2_2.json"
                            [] OTHER -> "">>
        IN
        /\ o.hasJson
        /\ \A k \in DOMAIN applied :
            /\ applied[k].name \in DOMAIN info.overlays
            /\ (\A m \in (k + 1)..Len(applied) : applied[m].name # applied[k].name)
                => info.overlays[applied[k].name] = applied[k].version
        /\ IF settings.omg_format_version = 1
           THEN IsFile(tree, OverlayJson) /\ tree[OverlayJson] = o.id
           ELSE /\ ~Exists(tree, OverlayJson)
                /\ IsFile(tree, moved) /\ tree[moved] = o.id

C24_Witness ==
    /\ LastReturned("addOverlay")
    /\ settings.omg_format_version = 2
    /\ OverlaysApplied = <<Ov2, Ov1>>
    /\ info.overlays = ("O1" :> "1") @@ ("O2" :> "2")
    /\ IsFile(tree, <<"overlays", "O2_2.json">>)
    /\ IsFile(tree, <<"overlays", "O1_1.json">>)

\* C25: the process ends with status 0 only when writeRomg has written the
\* .romg file and then the header, both whole, and the working tree has
\* been deleted; and in every state the header file is in the output
\* directory only if the .romg file has been written whole.
C25_ExitZeroMeansPairWritten ==
    /\ exitCode = 0 =>
        /\ outDir.romg.state = "complete"
        /\ outDir.header.state = "complete"
        /\ outDir.header.info = info
        /\ ~tmpDir
        /\ \E i, j \in DOMAIN log :
            /\ i < j
            /\ log[i].op = "writeRomg" /\ log[i].arg = "romg" /\ log[i].status = "ok"
            /\ log[j].op = "writeRomg" /\ log[j].arg = "header" /\ log[j].status = "ok"
    /\ outDir.header.state # "none" => outDir.romg.state = "complete"

C25_Witness ==
    /\ exitCode = 0
    /\ outDir.romg.state = "complete"
    /\ outDir.header.state = "complete"
    /\ Len(outDir.header.info.modules) = 1 + MaxModules
    /\ PathsBelow(outDir.romg.tree, <<>>) # {}
    /\ ~tmpDir

(***************************************************************************)
(* Properties of integratedcheckromgdeps.py, checked under SpecV           *)
(***************************************************************************)
VChecked == vpc # "start"

VNamesGiven == {vModules[i].name : i \in DOMAIN vModules}

\* a version that is the empty string, null, or not in the descriptor
Unversioned(v) == v.kind # "str" \/ (v.core = <<>> /\ v.pre = "")

\* the range holds of the version without its pre-release suffix
RangeMet(range, v) ==
    range.op = "" \/ SemverReturnCode(range, SplitDashFirst(v)) = 0

\* the dependencies module i of the list declares
DeclaredDeps(i) ==
    IF vModules[i].dependencies.present
    THEN DOMAIN vModules[i].dependencies.map ELSE {}

\* the check of dependency dep of module i of the list fails
CheckFails(i, dep) ==
    LET range == vModules[i].dependencies.map[dep] IN
    IF dep = BitsBase
    THEN ~Unversioned(vBase.version) /\ ~RangeMet(range, vBase.version)
    ELSE IF dep \notin VNamesGiven THEN TRUE
    ELSE LET target == ModulesDict(vModules)[dep] IN
         ~Unversioned(target.version) /\ ~RangeMet(range, target.version)

FailedChecks ==
    {c \in (DOMAIN vModules) \X AllNames :
        c[2] \in DeclaredDeps(c[1]) /\ CheckFails(c[1], c[2])}

ErrorsFor(module, dep) ==
    Cardinality({k \in DOMAIN vResult.errors :
                    vResult.errors[k] = [module |-> module, dep |-> dep]})

\* every descriptor given has a version string, as the input contract asks
VersionsGiven ==
    /\ vBase.version.kind = "str"
    /\ \A i \in DOMAIN vModules : vModules[i].version.kind = "str"

\* C5: validate checks every dependency of every module given: it returns,
\* its result is true exactly when no check fails, it logs one error for
\* each failed check, and so returns true with no error when every
\* dependency is present and satisfied.
C5_AllChecksConjoined ==
    (VChecked /\ VersionsGiven) =>
        /\ vResult.outcome \in {"true", "false"}
        /\ (vResult.outcome = "true") <=> (FailedChecks = {})
        /\ Len(vResult.errors) = Cardinality(FailedChecks)
        /\ \A c \in FailedChecks : ErrorsFor(vModules[c[1]].name, c[2]) >= 1

\* C6: for a module given that declares a dependency, other than bits-base,
\* on a name no module given has, validate returns false and logs exactly
\* one error for that module and dependency, whatever the range.
C6_MissingDependencyReported ==
    (VChecked /\ VersionsGiven) =>
        \A i \in DOMAIN vModules : \A dep \in DeclaredDeps(i) :
            (dep # BitsBase /\ dep \notin VNamesGiven) =>
                /\ vResult.outcome = "false"
                /\ ErrorsFor(vModules[i].name, dep) = 1

\* C7: a check whose target has an empty or absent version passes, whatever
\* the range: no error is logged for a bits-base dependency when the base
\* is unversioned, nor for a dependency on an unversioned module given, and
\* validation does not abort because of such a version.
C7_UnversionedTargetPasses ==
    VChecked =>
        /\ Unversioned(vBase.version) =>
            \A i \in DOMAIN vModules : ErrorsFor(vModules[i].name, BitsBase) = 0
        /\ \A i \in DOMAIN vModules : \A dep \in DeclaredDeps(i) :
            (dep # BitsBase /\ dep \in VNamesGiven
                /\ Unversioned(ModulesDict(vModules)[dep].version)
                /\ \A k \in DOMAIN vModules :
                    vModules[k].name = vModules[i].name => k = i)
            => ErrorsFor(vModules[i].name, dep) = 0
        /\ (\A i \in DOMAIN vModules : vModules[i].dependencies.present)
            => vResult.outcome # "raise"

\* C8: a module whose descriptor has no dependencies field has no
\* dependencies: validation of a set with such a module completes, and
\* returns true when no module given declares a dependency.
C8_MissingDependenciesFieldIsEmpty ==
    (/\ VChecked
     /\ vBase.version.kind # "absent"
     /\ \A i \in DOMAIN vModules : vModules[i].version.kind # "absent"
     /\ \E i \in DOMAIN vModules : ~vModules[i].dependencies.present)
    => /\ vResult.outcome # "raise"
       /\ (\A i \in DOMAIN vModules : DeclaredDeps(i) = {})
            => vResult.outcome = "true"

\* the names of the modules given are pairwise distinct
VNamesDistinct ==
    \A i, j \in DOMAIN vModules : vModules[i].name = vModules[j].name => i = j

\* C21: for a dependency of a module given on another module given whose
\* version is not empty, validate logs an error for the pair exactly when
\* the range is not met by the version cut at its first '-', and logs it
\* once.
C21_RangeAgainstStrippedVersion ==
    (VChecked /\ VersionsGiven /\ VNamesDistinct) =>
        \A i \in DOMAIN vModules : \A dep \in DeclaredDeps(i) :
            (/\ dep # BitsBase
             /\ dep \in VNamesGiven
             /\ ~Unversioned(ModulesDict(vModules)[dep].version))
            => LET range == vModules[i].dependencies.map[dep]
                   target == ModulesDict(vModules)[dep]
               IN ErrorsFor(vModules[i].name, dep) =
                    IF RangeMet(range, target.version) THEN 0 ELSE 1
====
